---------------------------- MODULE Spec2Model ----------------------------
(***************************************************************************)
(* A.R.T.I.S.T. (src/artist.py): the session loop of main(), the event     *)
(* polling of check_for_event, the speech cache of speak_text, the         *)
(* moderation gate and the verse arbiter get_best_verse.                   *)
(*                                                                         *)
(* One action models one stretch of main() between two blocking points.    *)
(* External services are inputs: every call whose failure the source       *)
(* handles or re-raises (transcription, chat completion, moderation, image *)
(* generation) may return a result or raise.  An exception that main()     *)
(* does not catch ends the process (pc = "Crashed").  The audio device and *)
(* the speech service (audio_tools, azure_speech) return; whether a text   *)
(* is already in the speech cache directory is an input of speak_text.     *)
(*                                                                         *)
(* Spec follows main().  SpecVerse applies get_best_verse to every bounded  *)
(* input, SpecSpeech follows the cache directory over the speak_text calls *)
(* of a process, and SpecPersona follows the transcripts of the three      *)
(* ChatCharacter objects over the requests main() and get_best_verse make. *)
(*                                                                         *)
(* Times are in units of the daydream window, texts are opaque strings,    *)
(* and the history variables record what each cycle did, for the           *)
(* properties at the end of the module.                                    *)
(***************************************************************************)
EXTENDS Integers, Sequences, FiniteSets, TLC

VARIABLES
    pc,                     \* position of main() in its loop
    now,                    \* time.monotonic()
    next_change_time,       \* artist.py:504
    consecutive_daydreams,  \* artist.py:493
    start_new,              \* artist.py:490
    daydream,               \* artist.py:491
    status,                 \* artist.py:510-520, after the timer override
    msg,                    \* artist.py:495
    silent_loops,           \* artist.py:584
    verse,                  \* artist.py:658
    js,                     \* artist.py:456, whether a joystick is connected
    polled,                 \* history: what check_for_event returned last
    calls,                  \* history: calls and outputs of the cycle, in order
    cycle,                  \* history: msg, next_change_time and counter
                            \* right after the dispatch of the cycle
    outcome,                \* history: how the cycle ended
    arb,                    \* one application of get_best_verse (SpecVerse)
    cache_dir,              \* the wav files of the speech cache (SpecSpeech)
    spoken,                 \* history: the speak_text calls of the process
    poet,                   \* ChatCharacter._messages of the poet
    critic,                 \* ChatCharacter._messages of the critic
    ai_artist,              \* ChatCharacter._messages of the artist
    sent,                   \* history: the last chat completion request
    daydreams_run,          \* history: daydream cycles since the last Next
                            \* event that made the chat call of the artist
    timer_dispatches        \* history: dispatches by the expired timer since
                            \* next_change_time was last assigned

speech_vars == <<cache_dir, spoken>>

persona_vars == <<poet, critic, ai_artist, sent>>

history_vars == <<daydreams_run, timer_dispatches>>

vars == <<pc, now, next_change_time, consecutive_daydreams, start_new,
          daydream, status, msg, silent_loops, verse, js, polled, calls,
          cycle, outcome, arb, cache_dir, spoken, poet, critic, ai_artist,
          sent, daydreams_run, timer_dispatches>>

---------------------------------------------------------------------------
(* Bounds of the model *)

MaxTime == 2

MaxCount == 3

MaxEvents == 2

MaxVerdictLen == 2

MaxCycleVerdictLen == 1

MaxVerses == 2

(* Configuration (config.json, read in main) *)

max_consecutive_daydreams == 1

min_daydream_time == 1

max_daydream_time == 2

num_verses == 2

generate_button == 0

daydream_button == 1

shutdown_hold_button == 2

shutdown_press_button == 3

\* mutant: the capture loop gives up one attempt early
SilenceLimit_short == 10 - 1

\* artist.py:586 and 789, the silence ceiling of the capture loop
SilenceLimit == 10

welcome_phrases == {"Hello. What shall I create?"}

working_lines == {"Let me think."}

finished_lines == {"Here it is."}

failed_lines == {"I could not create that."}

None == "None"

Texts == {"", "a sunset"}

---------------------------------------------------------------------------
(* check_for_event: the first recognised event of the pygame queue *)

Keys == {"K_ESCAPE", "K_SPACE", "K_d", "K_other"}

Buttons == {generate_button, daydream_button, shutdown_hold_button,
            shutdown_press_button}

Events == [type : {"KEYDOWN"}, key : Keys]
            \cup [type : {"JOYBUTTONDOWN"}, button : Buttons]
            \cup [type : {"OTHER"}]

RECURSIVE SeqsUpTo(_, _)
SeqsUpTo(S, n) ==
    IF n = 0 THEN {<<>>}
    ELSE LET shorter == SeqsUpTo(S, n - 1)
         IN  shorter \cup {Append(s, x) : s \in shorter, x \in S}

EventQueues == SeqsUpTo(Events, MaxEvents)

\* the result of one event of the loop body, None when the loop goes on
event_result(event, joystick, held) ==
    IF event.type = "KEYDOWN"
    THEN CASE event.key = "K_ESCAPE" -> "Quit"
           [] event.key = "K_SPACE" -> "Next"
           [] event.key = "K_d" -> "Daydream"
           [] OTHER -> None
    ELSE IF joystick /\ event.type = "JOYBUTTONDOWN"
    THEN IF event.button = shutdown_press_button /\ held THEN "Quit"
         ELSE IF event.button = generate_button THEN "Next"
         ELSE IF event.button = daydream_button THEN "Daydream"
         ELSE None
    ELSE None

RECURSIVE check_for_event(_, _, _)
check_for_event(queue, joystick, held) ==
    IF queue = <<>> THEN None
    ELSE LET r == event_result(Head(queue), joystick, held)
         IN  IF r # None THEN r
             ELSE check_for_event(Tail(queue), joystick, held)

\* artist.py:519-520
timer_override(st, t, nct) == IF t >= nct THEN "Daydream" ELSE st

\* mutant: a Daydream dispatch does not count
dispatch_count_no_increment(st, cd) == IF st = "Next" THEN 0 ELSE cd

\* mutant: the voice dispatch forgets to reset the counter
dispatch_count_no_reset(st, cd) == IF st = "Daydream" THEN cd + 1 ELSE cd

\* artist.py:526-535, consecutive_daydreams after the dispatch on status
dispatch_count(st, cd) ==
    IF st = "Next" THEN 0
    ELSE IF st = "Daydream" THEN cd + 1
    ELSE cd

\* mutant: the limit is never reached
daydream_limit_reached_never(cd) == FALSE

\* mutant: the limit is compared one too high
daydream_limit_reached_late(cd) == cd > max_consecutive_daydreams + 1

\* artist.py:540
daydream_limit_reached(cd) == cd > max_consecutive_daydreams

\* mutant: the gate lets a flagged prompt pass
check_moderation_open(flagged) == TRUE

\* artist.py:250-271, the value check_moderation returns for a result
check_moderation(flagged) == ~flagged

\* mutant: the finished phrase is spoken in every cycle
narrate_finished_always(dd) == TRUE

\* artist.py:730, whether the finished phrase is spoken
narrate_finished(dd) == ~dd

\* artist.py:587, whether the capture loop records from the microphone
records_audio(dd) == ~dd

\* mutant: the draw ignores the lower end of the window
reschedule_from_zero(t) == {t + d : d \in 0 .. max_daydream_time}

\* random.randint(min_daydream_time, max_daydream_time) after time.monotonic()
reschedule(t) == {t + d : d \in min_daydream_time .. max_daydream_time}

---------------------------------------------------------------------------
(* speak_text: cache lookup, synthesis on a miss, playback.  Whether the
   wav file of the text exists (os.path.exists) is an input of the call. *)

speak_text(text, exists) ==
    <<<<"speak", text>>>>
      \o (IF ~exists THEN <<<<"synthesize", text>>>> ELSE <<>>)
      \o <<<<"play", text>>>>

show(text) == <<<<"show", text>>>>

\* artist.py:620-627, the message of the daydream prompt
daydream_message(text) ==
    IF text # "" THEN text ELSE "something completely random."

---------------------------------------------------------------------------
(* get_best_verse: n poet completions, one critic verdict, the first digit *)

VerseTexts == {"verse A", "verse B"}

Error == "error"

\* the characters a verdict is made of: a letter, ASCII digits, and
\* SUPERSCRIPT TWO, for which str.isdigit() is true and int() raises
Chars == {"x", "0", "1", "2", "3", "sup2"}

decimal_value == ("0" :> 0) @@ ("1" :> 1) @@ ("2" :> 2) @@ ("3" :> 3)

isdigit(c) == c \in DOMAIN decimal_value \/ c = "sup2"

\* int(c) raises ValueError for a character that is no decimal digit
int_raises(c) == c \notin DOMAIN decimal_value

int(c) == decimal_value[c]

PoetReplies(n) == [1 .. n -> VerseTexts \cup {Error}]

\* a critic reply: its content of at most len characters, or an exception
\* of the chat call
CriticReplies(len) ==
    [ok : {TRUE}, content : SeqsUpTo(Chars, len)]
      \cup {[ok |-> FALSE, content |-> <<>>]}

\* artist.py:318-322, the first character c with c.isdigit(), or None
RECURSIVE first_digit_char(_)
first_digit_char(verdict) ==
    IF verdict = <<>> THEN None
    ELSE IF isdigit(Head(verdict)) THEN Head(verdict)
    ELSE first_digit_char(Tail(verdict))

\* Python's list[i] for a list held as a 1-based sequence
py_index(list, i) ==
    IF 0 <= i /\ i < Len(list) THEN list[i + 1]
    ELSE IF -Len(list) <= i /\ i < 0 THEN list[Len(list) + i + 1]
    ELSE "IndexError"

Raised(e, log) == [raised |-> TRUE, value |-> e, calls |-> log]

Returned(v, log) == [raised |-> FALSE, value |-> v, calls |-> log]

poet_log(k) == [i \in 1 .. k |-> <<"chat", "poet">>]

\* the number of poet calls made: up to and including the first that raises
poet_calls_made(poet_replies) ==
    IF \E k \in DOMAIN poet_replies : poet_replies[k] = Error
    THEN CHOOSE k \in DOMAIN poet_replies :
             /\ poet_replies[k] = Error
             /\ \A j \in 1 .. k - 1 : poet_replies[j] # Error
    ELSE Len(poet_replies)

\* artist.py:328-334; chosen_poem is <<>> for None and <<d>> for the int d
select_verse(verses, chosen_poem, pick) ==
    IF chosen_poem # <<>> THEN py_index(verses, chosen_poem[1] - 1)
    ELSE IF verses = <<>> THEN "IndexError"
    ELSE verses[pick]

get_best_verse(poet_replies, critic_reply, pick) ==
    LET made == poet_calls_made(poet_replies)
        log1 == poet_log(made)
        log2 == Append(log1, <<"chat", "critic">>)
    IN  IF \E k \in DOMAIN poet_replies : poet_replies[k] = Error
        THEN Raised("poet", log1)
        ELSE IF ~critic_reply.ok THEN Raised("critic", log2)
        ELSE LET c == first_digit_char(critic_reply.content)
             IN  IF c # None /\ int_raises(c) THEN Raised("ValueError", log2)
                 ELSE LET chosen_poem == IF c = None THEN <<>> ELSE <<int(c)>>
                          v == select_verse(poet_replies, chosen_poem, pick)
                      IN  IF v = "IndexError" THEN Raised("IndexError", log2)
                          ELSE Returned(v, log2)

---------------------------------------------------------------------------
(* The session loop of main().                                             *)
(* pc names the statement main() is about to run.  "Done" is the bottom of *)
(* the outer loop: LoopBack returns to the polling loop and forgets the    *)
(* history of the cycle together with the values the next dispatch        *)
(* overwrites before the code reads them.                                  *)

NoCycle == [msg |-> "", next_change_time |-> 0, consecutive_daydreams |-> 0]

Idle == [phase |-> "idle"]

\* the variables of the speech cache and of the personas where a
\* specification does not follow them
NoSpeech == cache_dir = <<>> /\ spoken = <<>>

NoHistory == daydreams_run = 0 /\ timer_dispatches = 0

NoRequest == [persona |-> "none", messages |-> <<>>, first |-> FALSE]

NoPersonas ==
    poet = <<>> /\ critic = <<>> /\ ai_artist = <<>> /\ sent = NoRequest

Init ==
    /\ pc = "AwaitingEvent"
    /\ now = 0
    /\ next_change_time \in reschedule(0)
    /\ consecutive_daydreams = 0
    /\ start_new = TRUE
    /\ daydream = FALSE
    /\ status = None
    /\ msg = ""
    /\ silent_loops = 0
    /\ verse = None
    /\ js \in BOOLEAN
    /\ polled = None
    /\ calls = <<>>
    /\ cycle = NoCycle
    /\ outcome = "none"
    /\ arb = Idle
    /\ NoSpeech
    /\ NoPersonas
    /\ NoHistory

\* time.monotonic() advances while main() polls or waits for a call
Tick ==
    /\ pc \notin {"Shutdown", "Crashed", "Done", "Verse"}
    /\ now < MaxTime
    /\ now' = now + 1
    /\ UNCHANGED <<pc, next_change_time, consecutive_daydreams, start_new,
                   daydream, status, msg, silent_loops, verse, js, polled,
                   calls, cycle, outcome, arb, speech_vars, persona_vars,
                   history_vars>>

\* artist.py:509-535, one iteration of the inner loop
PollEvents ==
    /\ pc = "AwaitingEvent"
    /\ \E queue \in EventQueues, held \in BOOLEAN :
         LET ev == check_for_event(queue, js, held)
             st == timer_override(ev, now, next_change_time)
             cd == dispatch_count(st, consecutive_daydreams)
         IN  /\ polled' = ev
             /\ status' = st
             /\ daydreams_run' = IF ev = "Next" THEN 0 ELSE daydreams_run
             /\ timer_dispatches' = IF now >= next_change_time
                                    THEN timer_dispatches + 1
                                    ELSE timer_dispatches
             /\ consecutive_daydreams' = cd
             /\ cd <= MaxCount
             /\ CASE st = "Quit" ->
                       /\ pc' = "Shutdown"
                       /\ UNCHANGED <<start_new, daydream, cycle, outcome, history_vars>>
                  [] st = "Next" ->
                       /\ pc' = "StartCycle"
                       /\ start_new' = TRUE
                       /\ daydream' = FALSE
                       /\ cycle' = [msg |-> msg,
                                    next_change_time |-> next_change_time,
                                    consecutive_daydreams |-> cd]
                       /\ outcome' = "running"
                  [] st = "Daydream" ->
                       /\ pc' = "StartCycle"
                       /\ start_new' = TRUE
                       /\ daydream' = TRUE
                       /\ cycle' = [msg |-> msg,
                                    next_change_time |-> next_change_time,
                                    consecutive_daydreams |-> cd]
                       /\ outcome' = "running"
                  [] OTHER ->
                       /\ pc' = pc
                       /\ UNCHANGED <<start_new, daydream, cycle, outcome, history_vars>>
    /\ UNCHANGED <<now, next_change_time, msg, silent_loops, verse, js,
                   calls, arb, speech_vars, persona_vars>>

\* artist.py:539-546, the daydream limit: redraw the time and poll again
SkipCycle ==
    /\ pc = "StartCycle"
    /\ start_new
    /\ daydream_limit_reached(consecutive_daydreams)
    /\ next_change_time' \in reschedule(now)
    /\ pc' = "Done"
    /\ outcome' = "skipped"
    /\ timer_dispatches' = 0
    /\ daydreams_run' = daydreams_run
    /\ UNCHANGED <<now, consecutive_daydreams, start_new, daydream, status,
                   msg, silent_loops, verse, js, polled, calls, cycle, arb,
                   speech_vars, persona_vars>>

\* artist.py:547-584, a voice cycle: the greeting, then "Listening..."
StartListening ==
    /\ pc = "StartCycle"
    /\ start_new
    /\ ~daydream_limit_reached(consecutive_daydreams)
    /\ ~daydream
    /\ \E greeting_phrase \in welcome_phrases, exists \in BOOLEAN :
         calls' = calls \o show(" ") \o speak_text(greeting_phrase, exists)
                    \o show("Listening...")
    /\ start_new' = FALSE
    /\ silent_loops' = 0
    /\ pc' = "Capture"
    /\ UNCHANGED <<now, next_change_time, consecutive_daydreams, daydream,
                   status, msg, verse, js, polled, cycle, outcome, arb,
                   speech_vars, persona_vars, history_vars>>

\* artist.py:579-584, a daydream cycle starts without a greeting
StartDaydream ==
    /\ pc = "StartCycle"
    /\ start_new
    /\ ~daydream_limit_reached(consecutive_daydreams)
    /\ daydream
    /\ start_new' = FALSE
    /\ silent_loops' = 0
    /\ pc' = "Capture"
    /\ UNCHANGED <<now, next_change_time, consecutive_daydreams, daydream,
                   status, msg, verse, js, polled, calls, cycle, outcome,
                   arb, speech_vars, persona_vars, history_vars>>

\* artist.py:586-592 and 786-796, one pass of the capture loop.  A silent
\* capture is logged; after a voiced one silent_loops is only compared with
\* the limit (artist.py:789), so the model keeps 0 for it and logs the
\* voiced capture alone.
Capture ==
    /\ pc = "Capture"
    /\ silent_loops < SilenceLimit
    /\ IF records_audio(daydream)
       THEN \E valid_audio \in BOOLEAN :
              IF valid_audio
              THEN /\ calls' = SelectSeq(calls, LAMBDA c : c[1] # "record")
                                 \o <<<<"record", "voice">>>>
                   /\ silent_loops' = 0
                   /\ pc' = "Transcribe"
                   /\ outcome' = outcome
              ELSE /\ silent_loops' = silent_loops + 1
                   /\ IF silent_loops' = SilenceLimit
                      THEN /\ calls' = Append(calls, <<"record", "silence">>)
                                         \o show("Ready")
                           /\ pc' = "Done"
                           /\ outcome' = "silence"
                      ELSE /\ calls' = Append(calls, <<"record", "silence">>)
                           /\ pc' = "Capture"
                           /\ outcome' = outcome
       ELSE /\ pc' = "Daydreaming"
            /\ UNCHANGED <<calls, silent_loops, outcome, history_vars>>
    /\ UNCHANGED <<now, next_change_time, consecutive_daydreams, start_new,
                   daydream, status, msg, verse, js, polled, cycle, arb,
                   speech_vars, persona_vars, history_vars>>

\* artist.py:593-611, "Working...", the working phrase, the transcription
Transcribe ==
    /\ pc = "Transcribe"
    /\ \E working_phrase \in working_lines, exists \in BOOLEAN,
          text \in Texts \cup {Error} :
         /\ calls' = calls \o show("Working...")
                       \o speak_text(working_phrase, exists)
                       \o <<<<"transcribe", IF text = Error THEN Error
                                            ELSE "ok">>>>
         /\ IF text = Error
            THEN /\ pc' = "Crashed"
                 /\ outcome' = "crashed"
                 /\ msg' = msg
            ELSE /\ pc' = "Moderate"
                 /\ outcome' = outcome
                 /\ msg' = text
    /\ UNCHANGED <<now, next_change_time, consecutive_daydreams, start_new,
                   daydream, status, silent_loops, verse, js, polled, cycle,
                   arb, speech_vars, persona_vars, history_vars>>

\* artist.py:612-629, "Daydreaming...", the prompt of the autonomous artist
Daydream ==
    /\ pc = "Daydreaming"
    /\ \E reply \in Texts \cup {Error} :
         /\ calls' = calls \o show("Daydreaming...")
                       \o <<<<"message", daydream_message(msg)>>,
                            <<"chat", "artist">>>>
         /\ IF reply = Error
            THEN /\ pc' = "Crashed"
                 /\ outcome' = "crashed"
                 /\ msg' = msg
            ELSE /\ pc' = "Moderate"
                 /\ outcome' = outcome
                 /\ msg' = reply
    /\ daydreams_run' = daydreams_run + 1
    /\ timer_dispatches' = timer_dispatches
    /\ UNCHANGED <<now, next_change_time, consecutive_daydreams, start_new,
                   daydream, status, silent_loops, verse, js, polled, cycle,
                   arb, speech_vars, persona_vars>>

\* mutant: an exception of the moderation call counts as a flagged prompt
Moderate_error_blocks ==
    /\ pc = "Moderate"
    /\ \E result \in {"clean", "flagged", Error} :
         /\ calls' = calls \o <<<<"write", "txt">>, <<"img_prompt", msg>>,
                            <<"moderation", result>>>>
         /\ pc' = IF result = "clean" THEN "CreateImage" ELSE "Failed"
         /\ outcome' = outcome
    /\ UNCHANGED <<now, next_change_time, consecutive_daydreams, start_new,
                   daydream, status, msg, silent_loops, verse, js, polled,
                   cycle, arb, speech_vars, persona_vars, history_vars>>

\* artist.py:631-644, the text file of the cycle, then the moderation gate
Moderate ==
    /\ pc = "Moderate"
    /\ \E result \in {"clean", "flagged", Error} :
         /\ calls' = calls \o <<<<"write", "txt">>, <<"img_prompt", msg>>,
                            <<"moderation", result>>>>
         /\ IF result = Error
            THEN /\ pc' = "Crashed"
                 /\ outcome' = "crashed"
            ELSE /\ pc' = IF check_moderation(result = "flagged")
                          THEN "CreateImage" ELSE "Failed"
                 /\ outcome' = outcome
    /\ UNCHANGED <<now, next_change_time, consecutive_daydreams, start_new,
                   daydream, status, msg, silent_loops, verse, js, polled,
                   cycle, arb, speech_vars, persona_vars, history_vars>>

\* mutant: the exception of the image request is not caught
CreateImage_propagating ==
    /\ pc = "CreateImage"
    /\ \E result \in {"ok", Error} :
         /\ calls' = Append(calls, <<"image", result>>)
         /\ pc' = IF result = Error THEN "Crashed" ELSE "BestVerse"
         /\ outcome' = IF result = Error THEN "crashed" ELSE outcome
    /\ UNCHANGED <<now, next_change_time, consecutive_daydreams, start_new,
                   daydream, status, msg, silent_loops, verse, js, polled,
                   cycle, arb, speech_vars, persona_vars, history_vars>>

\* artist.py:644-654, one image request; its exception is caught
CreateImage ==
    /\ pc = "CreateImage"
    /\ \E result \in {"ok", Error} :
         /\ calls' = Append(calls, <<"image", result>>)
         /\ pc' = IF result = Error THEN "Failed" ELSE "BestVerse"
    /\ UNCHANGED <<now, next_change_time, consecutive_daydreams, start_new,
                   daydream, status, msg, silent_loops, verse, js, polled,
                   cycle, outcome, arb, speech_vars, persona_vars,
                   history_vars>>

\* artist.py:654-664, the verse arbiter; its exceptions are not caught
BestVerse ==
    /\ pc = "BestVerse"
    /\ \E poet_replies \in PoetReplies(num_verses),
          critic_reply \in CriticReplies(MaxCycleVerdictLen),
          pick \in 1 .. num_verses :
         LET r == get_best_verse(poet_replies, critic_reply, pick)
         IN  /\ calls' = calls \o r.calls
                         \o (IF r.raised THEN <<<<"raise", r.value>>>>
                             ELSE <<>>)
             /\ IF r.raised
                THEN /\ pc' = "Crashed"
                     /\ outcome' = "crashed"
                     /\ verse' = verse
                ELSE /\ pc' = "Present"
                     /\ outcome' = outcome
                     /\ verse' = r.value
    /\ UNCHANGED <<now, next_change_time, consecutive_daydreams, start_new,
                   daydream, status, msg, silent_loops, js, polled, cycle,
                   arb, speech_vars, persona_vars, history_vars>>

\* artist.py:666-753 and 785, the layout, the finished phrase, the image
\* and scene files, the next daydream time
Present ==
    /\ pc = "Present"
    /\ \E finished_phrase \in finished_lines, exists \in BOOLEAN :
         calls' = calls \o <<<<"layout", "verse">>>>
                    \o (IF narrate_finished(daydream)
                        THEN speak_text(finished_phrase, exists) ELSE <<>>)
                    \o <<<<"write", "png">>, <<"write", "scene">>,
                         <<"reschedule", "timer">>>>
    /\ next_change_time' \in reschedule(now)
    /\ pc' = "Done"
    /\ outcome' = "success"
    /\ timer_dispatches' = 0
    /\ daydreams_run' = daydreams_run
    /\ UNCHANGED <<now, consecutive_daydreams, start_new, daydream, status,
                   msg, silent_loops, verse, js, polled, cycle, arb,
                   speech_vars, persona_vars>>

\* mutant: a failed daydream cycle redraws the next daydream time
CreationFailed_rescheduling ==
    /\ pc = "Failed"
    /\ \E failed_phrase \in failed_lines, exists \in BOOLEAN :
         calls' = calls \o show("Creation failed!")
                    \o speak_text(failed_phrase, exists)
    /\ next_change_time' \in IF daydream THEN reschedule(now)
                             ELSE {next_change_time}
    /\ pc' = "Done"
    /\ outcome' = "failed"
    /\ UNCHANGED <<now, consecutive_daydreams, start_new, daydream, status,
                   msg, silent_loops, verse, js, polled, cycle, arb,
                   speech_vars, persona_vars, history_vars>>

\* mutant: the failure phrase is spoken in voice cycles only
CreationFailed_voice_only ==
    /\ pc = "Failed"
    /\ \E failed_phrase \in failed_lines, exists \in BOOLEAN :
         calls' = calls \o show("Creation failed!")
                    \o (IF daydream THEN <<>>
                        ELSE speak_text(failed_phrase, exists))
    /\ pc' = "Done"
    /\ outcome' = "failed"
    /\ UNCHANGED <<now, next_change_time, consecutive_daydreams, start_new,
                   daydream, status, msg, silent_loops, verse, js, polled,
                   cycle, arb, speech_vars, persona_vars, history_vars>>

\* mutant: a failed cycle forgets its message
CreationFailed_clearing_msg ==
    /\ pc = "Failed"
    /\ \E failed_phrase \in failed_lines, exists \in BOOLEAN :
         calls' = calls \o show("Creation failed!")
                    \o speak_text(failed_phrase, exists)
    /\ pc' = "Done"
    /\ outcome' = "failed"
    /\ msg' = ""
    /\ UNCHANGED <<now, next_change_time, consecutive_daydreams, start_new,
                   daydream, status, silent_loops, verse, js, polled,
                   cycle, arb, speech_vars, persona_vars, history_vars>>

\* artist.py:754-785, "Creation failed!" and a failure phrase
CreationFailed ==
    /\ pc = "Failed"
    /\ \E failed_phrase \in failed_lines, exists \in BOOLEAN :
         calls' = calls \o show("Creation failed!")
                    \o speak_text(failed_phrase, exists)
    /\ pc' = "Done"
    /\ outcome' = "failed"
    /\ UNCHANGED <<now, next_change_time, consecutive_daydreams, start_new,
                   daydream, status, msg, silent_loops, verse, js, polled,
                   cycle, arb, speech_vars, persona_vars, history_vars>>

\* artist.py:508-510, back to the polling loop
LoopBack ==
    /\ pc = "Done"
    /\ pc' = "AwaitingEvent"
    /\ polled' = None
    /\ calls' = <<>>
    /\ cycle' = NoCycle
    /\ outcome' = "none"
    /\ status' = None
    /\ start_new' = TRUE
    /\ daydream' = FALSE
    /\ silent_loops' = 0
    /\ verse' = None
    /\ UNCHANGED <<now, next_change_time, consecutive_daydreams, msg, js,
                   arb, speech_vars, persona_vars, history_vars>>

Next ==
    \/ Tick
    \/ PollEvents
    \/ SkipCycle
    \/ StartListening
    \/ StartDaydream
    \/ Capture
    \/ Transcribe
    \/ Daydream
    \/ Moderate
    \/ CreateImage
    \/ BestVerse
    \/ Present
    \/ CreationFailed
    \/ LoopBack

Spec == Init /\ [][Next]_vars

---------------------------------------------------------------------------
(* get_best_verse applied to every bounded input *)

InitVerse ==
    /\ pc = "Verse"
    /\ now = 0
    /\ next_change_time = min_daydream_time
    /\ consecutive_daydreams = 0
    /\ start_new = TRUE
    /\ daydream = FALSE
    /\ status = None
    /\ msg = ""
    /\ silent_loops = 0
    /\ verse = None
    /\ js = FALSE
    /\ polled = None
    /\ calls = <<>>
    /\ cycle = NoCycle
    /\ outcome = "none"
    /\ \E n \in 1 .. MaxVerses :
         arb \in [phase : {"called"}, poet : PoetReplies(n),
                  critic : CriticReplies(MaxVerdictLen), pick : 1 .. n]
    /\ NoSpeech
    /\ NoPersonas
    /\ NoHistory

ApplyVerse ==
    /\ pc = "Verse"
    /\ arb.phase = "called"
    /\ arb' = [phase |-> "returned", poet |-> arb.poet,
               critic |-> arb.critic, pick |-> arb.pick,
               result |-> get_best_verse(arb.poet, arb.critic, arb.pick)]
    /\ UNCHANGED <<pc, now, next_change_time, consecutive_daydreams,
                   start_new, daydream, status, msg, silent_loops, verse, js,
                   polled, calls, cycle, outcome, speech_vars,
                   persona_vars, history_vars>>

NextVerse == ApplyVerse

SpecVerse == InitVerse /\ [][NextVerse]_vars

---------------------------------------------------------------------------
(* speak_text with its cache directory: the wav files persist between      *)
(* processes, so a process starts with any of them present.  The speech    *)
(* service may return different audio for the same text on each call.      *)

MaxSpeaks == 3

Phrases == welcome_phrases \cup working_lines \cup finished_lines
             \cup failed_lines

Audio == {"pcm A", "pcm B"}

\* mutant: the file of the text is never found
cache_miss_always(files, text) == TRUE

\* artist.py:195, not os.path.exists(filename)
cache_miss(files, text) == files[text] = None

InitSpeech ==
    /\ pc = "Speak"
    /\ now = 0
    /\ next_change_time = min_daydream_time
    /\ consecutive_daydreams = 0
    /\ start_new = TRUE
    /\ daydream = FALSE
    /\ status = None
    /\ msg = ""
    /\ silent_loops = 0
    /\ verse = None
    /\ js = FALSE
    /\ polled = None
    /\ calls = <<>>
    /\ cycle = NoCycle
    /\ outcome = "none"
    /\ arb = Idle
    /\ cache_dir \in [Phrases -> Audio \cup {None}]
    /\ spoken = <<>>
    /\ NoPersonas
    /\ NoHistory

\* artist.py:179-207, one call of speak_text: on a miss the text is
\* synthesized and written to its file, then the file is read and played
SpeakText ==
    /\ pc = "Speak"
    /\ Len(spoken) < MaxSpeaks
    /\ \E text \in Phrases, audio_data \in Audio :
         LET miss == cache_miss(cache_dir, text)
             files == IF miss THEN [cache_dir EXCEPT ![text] = audio_data]
                      ELSE cache_dir
         IN  /\ cache_dir' = files
             /\ spoken' = Append(spoken, [text |-> text,
                                          synthesized |-> miss,
                                          played |-> files[text]])
    /\ UNCHANGED <<pc, now, next_change_time, consecutive_daydreams,
                   start_new, daydream, status, msg, silent_loops, verse, js,
                   polled, calls, cycle, outcome, arb, persona_vars,
                   history_vars>>

NextSpeech == SpeakText

SpecSpeech == InitSpeech /\ [][NextSpeech]_vars

---------------------------------------------------------------------------
(* The three ChatCharacter objects of main() over the uses the session     *)
(* loop makes of them: the daydream prompt (ai_artist) and get_best_verse  *)
(* (poet and critic).  A transcript is the list _messages, a turn its role *)
(* and content; sent is the messages list of the last completion request.  *)

MaxTranscript == 5

turn(role, content) == [role |-> role, content |-> content]

\* artist.py:117-118, ChatCharacter.reset
reset(system_prompt) == <<turn("system", system_prompt)>>

\* artist.py:132, the user turn get_chat_response appends before the request
with_user(messages, message) == Append(messages, turn("user", message))

\* artist.py:138, the assistant turn appended when the request returned
with_reply(messages, content) == Append(messages, turn("assistant", content))

InitPersona ==
    /\ pc = "Persona"
    /\ now = 0
    /\ next_change_time = min_daydream_time
    /\ consecutive_daydreams = 0
    /\ start_new = TRUE
    /\ daydream = FALSE
    /\ status = None
    /\ msg = ""
    /\ silent_loops = 0
    /\ verse = None
    /\ js = FALSE
    /\ polled = None
    /\ calls = <<>>
    /\ cycle = NoCycle
    /\ outcome = "none"
    /\ arb = Idle
    /\ NoSpeech
    /\ poet = reset("poet")
    /\ critic = reset("critic")
    /\ ai_artist = reset("artist")
    /\ sent = NoRequest
    /\ NoHistory

\* artist.py:620-629, the daydream prompt: ai_artist.get_chat_response
DaydreamPrompt ==
    /\ pc = "Persona"
    /\ Len(ai_artist) < MaxTranscript
    /\ LET messages == with_user(ai_artist, daydream_message(msg))
       IN  /\ sent' = [persona |-> "artist", messages |-> messages,
                       first |-> TRUE]
           /\ \E reply \in Texts \cup {Error} :
                IF reply # Error
                THEN /\ ai_artist' = with_reply(messages, reply)
                     /\ msg' = reply
                     /\ pc' = "Persona"
                ELSE /\ ai_artist' = messages
                     /\ msg' = msg
                     /\ pc' = "Crashed"
    /\ UNCHANGED <<now, next_change_time, consecutive_daydreams, start_new,
                   daydream, status, silent_loops, verse, js, polled, calls,
                   cycle, outcome, arb, speech_vars, poet, critic,
                   history_vars>>

\* artist.py:304-307, the message for the critic: the theme, then the
\* verses numbered from 1 in the order of the list
critic_message(user_prompt, verses) ==
    [theme |-> user_prompt,
     poems |-> [i \in DOMAIN verses |-> <<i, verses[i]>>]]

\* artist.py:274-291, get_best_verse is entered with num_verses = n: poet
\* and critic are reset and the list of verses is empty
ResetPersonas ==
    /\ pc = "Persona"
    /\ poet' = reset("poet")
    /\ critic' = reset("critic")
    /\ \E n \in 1 .. MaxVerses :
         arb' = [phase |-> "poet", n |-> n, made |-> 0, verses |-> <<>>]
    /\ pc' = "Poet"
    /\ UNCHANGED <<now, next_change_time, consecutive_daydreams, start_new,
                   daydream, status, msg, silent_loops, verse, js, polled,
                   calls, cycle, outcome, speech_vars, ai_artist, sent,
                   history_vars>>

\* mutant: the poet is reset before every request of the loop
PoetRequest_resetting ==
    /\ pc = "Poet"
    /\ arb.made < arb.n
    /\ LET messages == with_user(reset("poet"), msg)
       IN  /\ sent' = [persona |-> "poet", messages |-> messages,
                       first |-> arb.made = 0]
           /\ \E reply \in VerseTexts \cup {Error} :
                IF reply # Error
                THEN /\ poet' = with_reply(messages, reply)
                     /\ arb' = [arb EXCEPT !.made = arb.made + 1,
                                           !.verses = Append(arb.verses, reply)]
                     /\ pc' = IF arb.made + 1 = arb.n THEN "Critic" ELSE "Poet"
                ELSE /\ poet' = messages
                     /\ arb' = [arb EXCEPT !.phase = "raised"]
                     /\ pc' = "Crashed"
    /\ UNCHANGED <<now, next_change_time, consecutive_daydreams, start_new,
                   daydream, status, msg, silent_loops, verse, js, polled,
                   calls, cycle, outcome, speech_vars, critic, ai_artist,
                   history_vars>>

\* artist.py:293-302, one pass of the poet loop
PoetRequest ==
    /\ pc = "Poet"
    /\ arb.made < arb.n
    /\ LET messages == with_user(poet, msg)
       IN  /\ sent' = [persona |-> "poet", messages |-> messages,
                       first |-> arb.made = 0]
           /\ \E reply \in VerseTexts \cup {Error} :
                IF reply # Error
                THEN /\ poet' = with_reply(messages, reply)
                     /\ arb' = [arb EXCEPT !.made = arb.made + 1,
                                           !.verses = Append(arb.verses, reply)]
                     /\ pc' = IF arb.made + 1 = arb.n THEN "Critic" ELSE "Poet"
                ELSE /\ poet' = messages
                     /\ arb' = [arb EXCEPT !.phase = "raised"]
                     /\ pc' = "Crashed"
    /\ UNCHANGED <<now, next_change_time, consecutive_daydreams, start_new,
                   daydream, status, msg, silent_loops, verse, js, polled,
                   calls, cycle, outcome, speech_vars, critic, ai_artist,
                   history_vars>>

\* artist.py:304-334, the critic request; get_best_verse then returns a
\* verse, or raises from int(c) or verses[chosen_poem - 1]
CriticRequest ==
    /\ pc = "Critic"
    /\ LET messages == with_user(critic, critic_message(msg, arb.verses))
       IN  /\ sent' = [persona |-> "critic", messages |-> messages,
                       first |-> TRUE]
           /\ \E replied \in BOOLEAN, returned \in BOOLEAN :
                IF replied
                THEN /\ critic' = with_reply(messages, "verdict")
                     /\ pc' = IF returned THEN "Persona" ELSE "Crashed"
                     /\ arb' = [arb EXCEPT !.phase = IF returned
                                                     THEN "returned"
                                                     ELSE "raised"]
                ELSE /\ critic' = messages
                     /\ pc' = "Crashed"
                     /\ arb' = [arb EXCEPT !.phase = "raised"]
    /\ UNCHANGED <<now, next_change_time, consecutive_daydreams, start_new,
                   daydream, status, msg, silent_loops, verse, js, polled,
                   calls, cycle, outcome, speech_vars, poet, ai_artist,
                   history_vars>>

NextPersona ==
    \/ DaydreamPrompt
    \/ ResetPersonas
    \/ PoetRequest
    \/ CriticRequest

SpecPersona == InitPersona /\ [][NextPersona]_vars

---------------------------------------------------------------------------
(* Properties *)

Ops(log) == {log[i][1] : i \in DOMAIN log}

Has(entry) == \E i \in DOMAIN calls : calls[i] = entry

HasOp(op) == op \in Ops(calls)

Count(entry) == Cardinality({i \in DOMAIN calls : calls[i] = entry})

GenerationCalls == {"transcribe", "chat", "moderation", "image"}

Window(t) == (t + min_daydream_time) .. (t + max_daydream_time)

InCycle == outcome # "none"

\* C1: in every state in which consecutive_daydreams exceeds
\* max_consecutive_daydreams the cycle in progress has issued no
\* transcription, chat, moderation or image-generation call; the counter
\* only falls below the ceiling again by the reset of a Next dispatch.
C1_NoGenerationAboveCeiling ==
    consecutive_daydreams > max_consecutive_daydreams
        => /\ Ops(calls) \cap GenerationCalls = {}
           /\ pc \in {"StartCycle", "Done", "AwaitingEvent", "Shutdown"}

C1_Witness ==
    /\ consecutive_daydreams > max_consecutive_daydreams
    /\ pc = "Done"
    /\ outcome = "skipped"

\* C2: a Daydream dispatch raises consecutive_daydreams by exactly 1, a Next
\* dispatch sets it to 0, and no other step of main() changes it (so it is
\* kept when the cycle is skipped or fails, and never decreases between
\* two Next dispatches).
C2_CounterSteps ==
    [][ /\ (pc = "AwaitingEvent" /\ pc' = "StartCycle" /\ daydream')
            => consecutive_daydreams' = consecutive_daydreams + 1
        /\ (pc = "AwaitingEvent" /\ pc' = "StartCycle" /\ ~daydream')
            => (polled' = "Next" /\ consecutive_daydreams' = 0)
        /\ (consecutive_daydreams' # consecutive_daydreams)
            => (pc = "AwaitingEvent" /\ pc' = "StartCycle")
      ]_vars

C2_Witness ==
    /\ pc = "StartCycle"
    /\ daydream
    /\ polled = "Daydream"
    /\ consecutive_daydreams = max_consecutive_daydreams + 1

\* C3: a cycle dispatched with consecutive_daydreams above the ceiling makes
\* no call, records and plays nothing, writes nothing, leaves msg as it was,
\* and ends with next_change_time redrawn into [now + min, now + max].
C3_SkipIsPure ==
    (InCycle /\ consecutive_daydreams > max_consecutive_daydreams)
        => /\ pc \in {"StartCycle", "Done"}
           /\ calls = <<>>
           /\ msg = cycle.msg
           /\ pc = "Done" => /\ outcome = "skipped"
                             /\ next_change_time \in Window(now)

C3_Witness ==
    /\ pc = "Done"
    /\ outcome = "skipped"
    /\ polled = None
    /\ consecutive_daydreams = max_consecutive_daydreams + 2
    /\ next_change_time # cycle.next_change_time

\* C4 (as claimed): whenever check_for_event returns "Quit", main() shuts
\* down in that iteration, whatever the daydream timer says.
C4_QuitShutsDown == polled = "Quit" => pc = "Shutdown"

\* C5 (as claimed): whenever check_for_event returns "Next", a voice cycle
\* starts with consecutive_daydreams = 0, also when the timer has expired.
C5_NextStartsVoiceCycle ==
    polled = "Next" => /\ status = "Next"
                       /\ ~daydream
                       /\ consecutive_daydreams = 0

\* C6: an image request is preceded by a clean moderation result of the
\* same cycle; after a flagged result the cycle requests no image and calls
\* neither poet nor critic, shows "Creation failed!", speaks a failure
\* phrase and ends.
C6_ModerationGate ==
    /\ \A j \in DOMAIN calls :
         calls[j][1] = "image"
            => \E i \in 1 .. j - 1 : calls[i] = <<"moderation", "clean">>
    /\ Has(<<"moderation", "flagged">>)
         => /\ ~HasOp("image")
            /\ ~Has(<<"chat", "poet">>)
            /\ ~Has(<<"chat", "critic">>)
            /\ pc \in {"Failed", "Done"}
            /\ pc = "Done"
                 => /\ outcome = "failed"
                    /\ Has(<<"show", "Creation failed!">>)
                    /\ \E f \in failed_lines :
                         Has(<<"speak", f>>) /\ Has(<<"play", f>>)

C6_Witness ==
    /\ pc = "Done"
    /\ Has(<<"moderation", "flagged">>)
    /\ Has(<<"show", "Creation failed!">>)

\* C7 (as claimed): a failed daydream cycle ends with next_change_time
\* redrawn into [now + min, now + max], a failed voice cycle leaves it.
C7_RescheduledIffDaydream ==
    (pc = "Done" /\ outcome = "failed")
        => IF daydream THEN next_change_time \in Window(now)
           ELSE next_change_time = cycle.next_change_time

\* C7 (amended): a cycle that fails in Working leaves next_change_time as it
\* was at its dispatch, in a daydream cycle as in a voice cycle.
C7_FailureKeepsTimer ==
    (InCycle /\ (pc = "Failed" \/ outcome = "failed"))
        => next_change_time = cycle.next_change_time

C7_Witness ==
    /\ pc = "Done"
    /\ outcome = "failed"
    /\ daydream
    /\ Has(<<"image", Error>>)
    /\ next_change_time <= now

IsSilenceCycle == pc = "Done" /\ outcome = "silence"

SilenceCycleFrame ==
    /\ ~daydream
    /\ Count(<<"record", "silence">>) = 10
    /\ ~Has(<<"record", "voice">>)
    /\ Ops(calls) \cap (GenerationCalls \cup {"write", "layout"}) = {}
    /\ calls[Len(calls)] = <<"show", "Ready">>
    /\ msg = cycle.msg
    /\ consecutive_daydreams = cycle.consecutive_daydreams
    /\ next_change_time = cycle.next_change_time

\* C8 (as claimed): a voice cycle with 10 silent captures records exactly 10
\* times, shows "Ready", makes no external call at all (speech synthesis
\* included), writes nothing and leaves msg, counter and timer alone.
C8_SilenceNoCalls ==
    IsSilenceCycle => (SilenceCycleFrame /\ ~HasOp("synthesize"))

\* C8 (amended): as claimed, except that the greeting spoken on entry to
\* Listening is synthesized when it is not in the speech cache: that one
\* speech-synthesis call is the only external call of the cycle.
C8_SilenceOnlyGreeting ==
    IsSilenceCycle
        => /\ SilenceCycleFrame
           /\ \A i \in DOMAIN calls :
                calls[i][1] \in {"speak", "synthesize", "play"}
                   => calls[i][2] \in welcome_phrases
           /\ Cardinality({i \in DOMAIN calls : calls[i][1] = "synthesize"})
                <= 1

C8_Witness ==
    /\ IsSilenceCycle
    /\ HasOp("synthesize")
    /\ silent_loops = 10

AudioOps == {"speak", "synthesize", "play"}

\* C9 (as claimed): a daydream cycle never records and never speaks, on
\* every outcome.
C9_DaydreamSilent ==
    (daydream /\ InCycle)
        => (~HasOp("record") /\ Ops(calls) \cap AudioOps = {})

\* C9 (amended): a daydream cycle never records, and speaks only when it
\* fails (moderation flagged or image-generation error), where the failure
\* phrase is narrated; a daydream cycle that succeeds outputs no audio.
C9_DaydreamSpeaksOnlyFailure ==
    (daydream /\ InCycle)
        => /\ ~HasOp("record")
           /\ \A i \in DOMAIN calls :
                calls[i][1] \in AudioOps
                   => /\ calls[i][2] \in failed_lines
                      /\ pc = "Done"
                      /\ outcome = "failed"
           /\ outcome = "failed" => \E f \in failed_lines : Has(<<"play", f>>)

C9_Witness ==
    /\ daydream
    /\ pc = "Done"
    /\ outcome = "failed"
    /\ Has(<<"moderation", "flagged">>)
    /\ HasOp("play")

\* the first decimal digit of a verdict, -1 when it has none
RECURSIVE FirstDecimalDigit(_)
FirstDecimalDigit(verdict) ==
    IF verdict = <<>> THEN -1
    ELSE IF Head(verdict) \in DOMAIN decimal_value
         THEN decimal_value[Head(verdict)]
    ELSE FirstDecimalDigit(Tail(verdict))

\* C10 (as claimed): for n >= 1 candidates and a critic reply whose first
\* decimal digit d is in 1..n, get_best_verse returns the d-th candidate.
C10_DigitSelects ==
    (/\ arb.phase = "returned"
     /\ \A k \in DOMAIN arb.poet : arb.poet[k] # Error
     /\ arb.critic.ok
     /\ FirstDecimalDigit(arb.critic.content) \in 1 .. Len(arb.poet))
        => /\ ~arb.result.raised
           /\ arb.result.value
                = arb.poet[FirstDecimalDigit(arb.critic.content)]

\* the candidates of a call whose poet and critic requests all returned
Candidates == {arb.poet[k] : k \in DOMAIN arb.poet}

CriticReplied ==
    /\ arb.phase = "returned"
    /\ \A k \in DOMAIN arb.poet : arb.poet[k] # Error
    /\ arb.critic.ok

\* C11 (as claimed): for n >= 1 candidates and a critic reply without any
\* decimal digit, get_best_verse does not raise and returns one of the n
\* candidates of the call.
C11_NoDigitFallsBack ==
    (CriticReplied /\ FirstDecimalDigit(arb.critic.content) = -1)
        => /\ ~arb.result.raised
           /\ arb.result.value \in Candidates

\* C12 (as claimed): whatever the content of a critic reply that was
\* received (first digit 0, first digit above n, no digit), get_best_verse
\* returns one of the n candidates of the call and raises nothing.
C12_VerdictNeverRaises ==
    CriticReplied
        => (arb.result.raised = FALSE /\ arb.result.value \in Candidates)

\* C13: over the speak_text calls of one process, each text (with the one
\* voice identity of the process) is synthesized at most once; a later call
\* with the same text synthesizes nothing and plays the same audio as the
\* earlier call.
C13_SynthesizedAtMostOnce ==
    \A i, j \in DOMAIN spoken :
        (i < j /\ spoken[i].text = spoken[j].text)
            => /\ ~spoken[j].synthesized
               /\ spoken[j].played = spoken[i].played

C13_Witness ==
    \E i, j \in DOMAIN spoken :
        /\ i < j
        /\ spoken[i].text = spoken[j].text
        /\ spoken[i].synthesized
        /\ spoken[j].played = spoken[i].played

Roles(messages) == [i \in DOMAIN messages |-> messages[i].role]

\* C14 (as claimed): the first request of every use of a persona (the
\* daydream prompt for the artist, the first poet request and the critic
\* request of a get_best_verse call) sends the system turn and the new user
\* turn only: no turn of an earlier use is in the transcript.
C14_FreshTranscript ==
    sent.first => Roles(sent.messages) = <<"system", "user">>

CountOp(op) == Cardinality({i \in DOMAIN calls : calls[i][1] = op})

FailureShown == Has(<<"show", "Creation failed!">>)

FailureNarrated == \E f \in failed_lines : Has(<<"play", f>>)

\* C15 (as claimed): a cycle that ends in failure, in the silence ceiling
\* or in a skip has written no file to the output directory.
C15_NoFileUnlessSuccess ==
    (pc = "Done" /\ outcome \in {"failed", "silence", "skipped"})
        => ~HasOp("write")

\* C16: after a clean moderation result the image is requested exactly
\* once; when that request raises, main() goes on (it does not crash): no
\* poet or critic request, no image or scene file, "Creation failed!" is
\* shown, a failure phrase is spoken and the cycle ends at the bottom of the
\* loop, from where main() polls again.
C16_ImageErrorHandled ==
    /\ CountOp("image") <= 1
    /\ (Has(<<"moderation", "clean">>) /\ pc # "CreateImage")
         => CountOp("image") = 1
    /\ Has(<<"image", Error>>)
         => /\ pc \in {"Failed", "Done"}
            /\ ~Has(<<"chat", "poet">>)
            /\ ~Has(<<"chat", "critic">>)
            /\ ~Has(<<"write", "png">>)
            /\ ~Has(<<"write", "scene">>)
            /\ pc = "Done" => /\ outcome = "failed"
                              /\ FailureShown
                              /\ FailureNarrated

C16_Witness ==
    /\ pc = "Done"
    /\ Has(<<"moderation", "clean">>)
    /\ Has(<<"image", Error>>)
    /\ FailureShown
    /\ FailureNarrated

\* C17 (as claimed): after an exception of a poet or critic request has
\* left get_best_verse, main() is on its "Creation failed!" path or at the
\* bottom of the loop with a failed cycle: the process has not ended.
C17_ArbiterFailureCaught ==
    (Has(<<"raise", "poet">>) \/ Has(<<"raise", "critic">>))
        => /\ pc \in {"Failed", "Done"}
           /\ pc = "Done" => (outcome = "failed" /\ FailureShown)

\* C18: in every cycle "Creation failed!" is shown if and only if a failure
\* phrase is spoken, and a cycle that ends after a flagged moderation result
\* or an image-generation error has done both.
C18_StatusIffPhrase ==
    /\ FailureShown <=> FailureNarrated
    /\ FailureShown
         <=> \E f \in failed_lines : Has(<<"speak", f>>)
    /\ (pc = "Done" /\ (Has(<<"moderation", "flagged">>)
                          \/ Has(<<"image", Error>>)))
         => (FailureShown /\ FailureNarrated)

C18_Witness ==
    /\ pc = "Done"
    /\ ~daydream
    /\ Has(<<"image", Error>>)
    /\ FailureShown
    /\ FailureNarrated

\* C19: an exception of the moderation call leaves main(): it is not
\* taken for a flagged prompt, so nothing is shown or spoken about a failed
\* creation and no image is requested; the gate closes exactly on a flagged
\* result and opens exactly on a clean one.
C19_ModerationErrorPropagates ==
    /\ Has(<<"moderation", Error>>)
         => /\ pc = "Crashed"
            /\ ~FailureShown
            /\ \A f \in failed_lines : ~Has(<<"speak", f>>)
            /\ ~HasOp("image")
    /\ pc = "CreateImage" => calls[Len(calls)] = <<"moderation", "clean">>
    /\ (pc = "Failed" /\ ~HasOp("image"))
         => calls[Len(calls)] = <<"moderation", "flagged">>

C19_Witness ==
    /\ pc = "Crashed"
    /\ Has(<<"moderation", Error>>)
    /\ ~FailureShown

Pos(entry) == CHOOSE i \in DOMAIN calls : calls[i] = entry

\* C20 (as claimed): a successful cycle runs the verse arbiter, then the
\* layout, then the finished phrase (exactly in a voice cycle), then writes
\* the files of the artifact, then redraws next_change_time into
\* [now + min, now + max], and ends.
C20_SuccessOrder ==
    (pc = "Done" /\ outcome = "success")
        => LET layout == Pos(<<"layout", "verse">>)
           IN  /\ \A i \in DOMAIN calls :
                    calls[i][1] = "chat" => i < layout
               /\ (\E f \in finished_lines : Has(<<"play", f>>)) <=> ~daydream
               /\ \A i \in DOMAIN calls :
                    calls[i][2] \in finished_lines => i > layout
               /\ \A i, j \in DOMAIN calls :
                    (calls[i][1] = "write" /\ calls[j][1] \in AudioOps)
                        => i > j
               /\ \A i \in DOMAIN calls : calls[i][1] = "write" => i > layout
               /\ calls[Len(calls)] = <<"reschedule", "timer">>
               /\ next_change_time \in Window(now)

\* the transcript of a persona after k requests that returned
Alternating(messages, k) ==
    /\ Len(messages) = 2 * k + 1
    /\ messages[1].role = "system"
    /\ \A i \in 1 .. k : /\ messages[2 * i].role = "user"
                         /\ messages[2 * i + 1].role = "assistant"

\* C21: in a get_best_verse call for n verses, before the k-th poet request
\* the poet transcript is the system turn and the k - 1 earlier user and
\* assistant turns (length 2k - 1) and the critic is untouched since its
\* reset; the critic is asked after n poet requests; and when the call has
\* returned, the poet was asked n times and the critic once, with one
\* message of the theme and the n replies of the poet numbered 1..n in the
\* order they were made.
C21_ArbiterCallPattern ==
    /\ pc = "Poet"
         => /\ arb.made < arb.n
            /\ Alternating(poet, arb.made)
            /\ Len(poet) = 2 * (arb.made + 1) - 1
            /\ Len(arb.verses) = arb.made
            /\ critic = reset("critic")
    /\ pc = "Critic"
         => /\ arb.made = arb.n
            /\ Alternating(poet, arb.n)
            /\ critic = reset("critic")
    /\ arb.phase = "returned"
         => /\ Alternating(poet, arb.n)
            /\ Alternating(critic, 1)
            /\ critic[2].content.theme = poet[2].content
            /\ critic[2].content.poems
                 = [i \in 1 .. arb.n |-> <<i, poet[2 * i + 1].content>>]

C21_Witness ==
    /\ pc = "Persona"
    /\ arb.phase = "returned"
    /\ arb.n > 1
    /\ Len(poet) = 2 * arb.n + 1
    /\ poet[3].content # poet[5].content

\* C22: between two Next events at most max_consecutive_daydreams daydream
\* cycles reach the chat call of the artist; the counter is never below the
\* number of those cycles, so a Daydream dispatch that follows the last of
\* them finds the counter above the ceiling and is skipped, while the
\* counter goes on counting the skipped dispatches.
C22_BoundedAutonomy ==
    /\ daydreams_run <= max_consecutive_daydreams
    /\ consecutive_daydreams >= daydreams_run
    /\ (daydream /\ pc \in {"StartCycle", "Capture", "Daydreaming"})
         => consecutive_daydreams > daydreams_run
    /\ (daydream /\ pc = "StartCycle"
          /\ daydreams_run = max_consecutive_daydreams)
         => consecutive_daydreams > max_consecutive_daydreams
    /\ (daydream /\ InCycle
          /\ consecutive_daydreams > max_consecutive_daydreams)
         => /\ pc \in {"StartCycle", "Done"}
            /\ pc = "Done" => outcome = "skipped"

C22_Witness ==
    /\ daydreams_run = max_consecutive_daydreams
    /\ pc = "Done"
    /\ outcome = "skipped"
    /\ consecutive_daydreams = max_consecutive_daydreams + 2

C24_MsgWrites ==
    /\ [](\A i \in DOMAIN calls :
             calls[i][1] = "img_prompt" => calls[i][2] = msg)
    /\ []((InCycle /\ outcome \in {"silence", "skipped"}) => msg = cycle.msg)
    /\ [][ /\ msg' # msg
                => \/ pc = "Transcribe" /\ ~daydream /\ pc' = "Moderate"
                   \/ pc = "Daydreaming" /\ daydream /\ pc' = "Moderate"
           /\ (pc = "Daydreaming" /\ pc' # "Daydreaming")
                => /\ calls'[Len(calls) + 2]
                        = <<"message",
                            IF msg = "" THEN "something completely random."
                            ELSE msg>>
                   /\ msg = cycle.msg
         ]_vars

C24_Witness ==
    /\ daydream
    /\ pc = "Done"
    /\ outcome = "failed"
    /\ Has(<<"message", "a sunset">>)
    /\ Has(<<"img_prompt", "">>)
    /\ msg = ""

====
